---- MODULE Spec2Model ----
(***************************************************************************)
(* A state-machine model of src/PlaywrightF.py: the challenge detector,    *)
(* the manual-resolution gate, the result collector with its fallback      *)
(* selectors and retries, the News-tab augmentation, the final             *)
(* deduplication pass and the lifetime of the browser context in main.     *)
(***************************************************************************)
EXTENDS Integers, Sequences, FiniteSets

\* ------------------------------------------------------------------ bounds
\* Most elements one selector may match on a page.
MaxCount == 3
\* Largest max_items the collector is called with on its own.
MaxN == 2
\* Longest selector list the collector is called with on its own.
MaxSel == 2
\* Longest result sequence given to the deduplication pass on its own.
MaxLen == 3
\* Most elements a challenge-phrase locator may match.
MaxPhrase == 2

\* ------------------------------------------------------- program constants
MAX_RETRIES == 2
\* max_items of both calls of collect_search_results in main.
MainMaxItems == 12
\* the threshold of "if len(results) < 6".
NewsThreshold == 6

\* selectors of main, in priority order.
Selectors ==
  << "div.yuRUbf > a", "div.g a", "h3 > a", "article h3 a", "a[href^='http']" >>

news_selectors == << "article h3 a", "div.SoaBEf a", "div.NiLAwe a" >>

\* ------------------------------------------------------------ page content
\* What a failing library call does: it raises.
Raise == "!raise"
\* get_attribute("href") of an anchor without the attribute.
None == "!none"

Links == {"x", "y"}

\* str.strip() on the texts the model uses: a text of blanks becomes empty.
Strip(s) == IF s = " " THEN "" ELSE s

\* The anchors a selector may match.  h3: inner_text of the nested heading,
\* text: inner_text of the anchor, href: get_attribute("href").
Elems ==
  { [h3 |-> "H",   text |-> "A",   href |-> "x"],
    [h3 |-> "H",   text |-> "A",   href |-> "y"],
    [h3 |-> Raise, text |-> "A",   href |-> "y"],
    [h3 |-> " ",   text |-> "A",   href |-> "x"],
    [h3 |-> Raise, text |-> " ",   href |-> "x"],
    [h3 |-> "H",   text |-> "A",   href |-> None],
    [h3 |-> "H",   text |-> "A",   href |-> ""],
    [h3 |-> Raise, text |-> Raise, href |-> "x"],
    [h3 |-> "H",   text |-> "A",   href |-> Raise] }

\* The documents main is run against: the anchors of the page of search
\* results, and of the page behind the News tab.  Under main every selector
\* that is present matches all the anchors of the page shown.
ResultPages ==
  { << >>,
    << [h3 |-> "H", text |-> "A", href |-> "x"] >>,
    << [h3 |-> "H", text |-> "A", href |-> "x"],
       [h3 |-> Raise, text |-> "A", href |-> "y"] >>,
    << [h3 |-> "H", text |-> "A", href |-> "x"],
       [h3 |-> "H", text |-> "A", href |-> None],
       [h3 |-> "H", text |-> "A", href |-> "y"],
       [h3 |-> Raise, text |-> "A", href |-> "x"] >> }

NewsPages ==
  { << >>,
    << [h3 |-> "H", text |-> "A", href |-> "y"],
       [h3 |-> "H", text |-> "A", href |-> "y"] >>,
    << [h3 |-> Raise, text |-> "A", href |-> "x"],
       [h3 |-> "H", text |-> "A", href |-> "y"] >> }

Min(a, b) == IF a < b THEN a ELSE b

\* --------------------------------------------------------- is_captcha_page
\* A page as the detector sees it: whether page.url contains "/sorry/", and
\* how many elements the two phrase locators match.
Pages == [marker : BOOLEAN, notRobot : 0..MaxPhrase, unusual : 0..MaxPhrase]

\* The inspection step that raises, if any.
Faults == {"none", "url", "notRobot", "unusual"}

\* The try block of is_captcha_page (with the final "return False" it falls
\* through to): "true", "false", or Raise when a step that is reached raises.
\* (A variant without the second phrase locator.)
InspectBodyNoSecondPhrase(pg, f) ==
  IF f = "url" THEN Raise
  ELSE IF pg.marker THEN "true"
  ELSE IF f = "notRobot" THEN Raise
  ELSE IF pg.notRobot > 0 THEN "true"
  ELSE "false"

InspectBody(pg, f) ==
  IF f = "url" THEN Raise
  ELSE IF pg.marker THEN "true"
  ELSE IF f = "notRobot" THEN Raise
  ELSE IF pg.notRobot > 0 THEN "true"
  ELSE IF f = "unusual" THEN Raise
  ELSE IF pg.unusual > 0 THEN "true"
  ELSE "false"

\* The except clause of is_captcha_page: what an inspection error becomes.
\* (A variant without the handler: the error leaves the function.)
OnInspectErrorPropagates == Raise

OnInspectError == "false"

is_captcha_page(pg, f) ==
  IF InspectBody(pg, f) = Raise THEN OnInspectError ELSE InspectBody(pg, f)

\* -------------------------------------------------- collect_search_results
\* The length of the inner range: min(count, max_items - len(results)); a
\* range of negative length is empty.
\* (A variant that ignores the capacity: range(count).)
TakeAll(count, maxItems, have) == count

Take(count, maxItems, have) ==
  IF Min(count, maxItems - have) < 0 THEN 0 ELSE Min(count, maxItems - have)

\* The body of the inner loop for one anchor: the list after it.
ExtractElem(list, e) ==
  LET title == IF e.h3 = Raise THEN Strip(e.text) ELSE Strip(e.h3)
      href  == IF e.href = None THEN "" ELSE e.href
  IN  IF (e.h3 = Raise /\ e.text = Raise) \/ e.href = Raise
        THEN list                       \* except Exception: continue
        ELSE IF title # "" /\ href # ""
               THEN Append(list, [title |-> title, link |-> href])
               ELSE list

\* Whether attempt number "att" (from 0) of "for attempt in
\* range(MAX_RETRIES)" has a successor.
Retries(att) == att + 1 < MAX_RETRIES

\* What follows an enumeration that did not fill the list: the break to the
\* next selector.
\* (A variant with continue in place of the break.)
AfterEnumeratedAgain == "again"

AfterEnumerated == "next"

\* ------------------------------------------------------------ main helpers
LinksOf(list) == { list[k].link : k \in 1..Len(list) }

\* "if len(results) < 6"
\* (A variant with <= in place of <.)
NeedsNewsUpTo(n) == n <= NewsThreshold

NeedsNews(n) == n < NewsThreshold

\* The merge of the News results: existing_links is computed once, before
\* the loop.
RECURSIVE MergeFrom(_, _, _, _)
MergeFrom(list, news, existing, k) ==
  IF k > Len(news) THEN list
  ELSE MergeFrom(IF news[k].link \notin existing THEN Append(list, news[k]) ELSE list,
                 news, existing, k + 1)

Merge(list, news) == MergeFrom(list, news, LinksOf(list), 1)

\* seen.add(href)
\* (A variant that never records the link.)
SeenAddForgotten(seen, href) == seen

SeenAdd(seen, href) == seen \cup {href}

\* The final deduplication loop; an entry without a link reads as link "".
RECURSIVE DedupeFrom(_, _, _, _)
DedupeFrom(list, uniq, seen, k) ==
  IF k > Len(list) THEN uniq
  ELSE IF list[k].link # "" /\ list[k].link \notin seen
         THEN DedupeFrom(list, Append(uniq, list[k]), SeenAdd(seen, list[k].link), k + 1)
         ELSE DedupeFrom(list, uniq, seen, k + 1)

Dedupe(list) == DedupeFrom(list, <<>>, {}, 1)

\* ------------------------------------------------------------------- state
VARIABLES
  pc,            \* the position in main (or in the function run on its own)
  ctx,           \* the browser context: "none", "open" or "closed"
  launches,      \* calls of launch_persistent_context
  closes,        \* calls of context.close()
  opsAfterClose, \* whether a page operation ran on a closed context
  cp,            \* one record per challenge checkpoint passed
  prompts,       \* calls of prompt_manual_solve
  acks,          \* Enter keystrokes received by the prompt
  steps,         \* the automated steps performed so far
  collectCalls,  \* calls of collect_search_results made by main
  ending,        \* how the run ended: "return", "sys.exit" or "exception"
  exitStatus,    \* the exit status of the process, "none" while it runs
  printed,       \* what was printed at the end
  results, news_results, unique, primaryCount,
  \* collect_search_results
  caller, selector_list, max_items, sel, attempt, count, n, i, acc,
  lastOutcome,   \* how the latest attempt at a selector ended
  nAttempts,     \* attempts made by the current call
  dom,           \* under main: the anchors of the page shown
  \* is_captcha_page run on its own
  page, fault, captcha

mainVars == << ctx, launches, closes, opsAfterClose, cp, prompts, acks, steps,
               collectCalls, ending, exitStatus, printed, primaryCount >>
listVars == << results, news_results, unique, dom >>
collectVars == << caller, selector_list, max_items, sel, attempt, count, n, i, acc,
                  lastOutcome, nAttempts >>
\* The numbers of elements a present selector may match, and the anchors its
\* k-th match may be: anything when the collector runs on its own, the
\* anchors of the page when main runs it.
Counts == IF caller = "harness" THEN 0..MaxCount ELSE {Len(dom)}
ElemsAt(k) == IF caller = "harness" THEN Elems ELSE {dom[k]}
captchaVars == << page, fault, captcha >>
vars == << pc, mainVars, listVars, collectVars, captchaVars >>

\* The values of the variables a specification does not use.
MainIdle ==
  /\ ctx = "none" /\ launches = 0 /\ closes = 0 /\ opsAfterClose = FALSE
  /\ cp = <<>> /\ prompts = 0 /\ acks = 0 /\ steps = {} /\ collectCalls = 0
  /\ ending = "none" /\ exitStatus = "none" /\ printed = "none"
  /\ primaryCount = 0
CollectIdle ==
  /\ caller = "none" /\ selector_list = <<>> /\ max_items = 0 /\ sel = 1
  /\ attempt = 0 /\ count = 0 /\ n = 0 /\ i = 0 /\ acc = <<>> /\ lastOutcome = "none"
  /\ nAttempts = 0
CaptchaIdle ==
  /\ page = [marker |-> FALSE, notRobot |-> 0, unusual |-> 0]
  /\ fault = "none" /\ captcha = "none"
ListsIdle ==
  /\ results = <<>> /\ news_results = <<>> /\ unique = <<>> /\ dom = <<>>

\* A page operation: it is recorded when it runs on a closed context.
Touch == opsAfterClose' = (opsAfterClose \/ ctx = "closed")

\* -------------------------------------------------- collect_search_results
\* The call: results = [] and the first selector.
BeginCollect(who, sels, maxItems) ==
  /\ caller' = who
  /\ selector_list' = sels
  /\ max_items' = maxItems
  /\ sel' = 1 /\ attempt' = 0 /\ count' = 0 /\ n' = 0 /\ i' = 0
  /\ acc' = <<>>
  /\ lastOutcome' = "none"
  /\ nAttempts' = 0

\* break: on to the next selector of the list.
NextSelector ==
  /\ sel' = sel + 1
  /\ attempt' = 0

\* continue: the next attempt at the same selector, if range() has one.
NextAttempt ==
  IF Retries(attempt)
    THEN /\ attempt' = attempt + 1
         /\ sel' = sel
    ELSE NextSelector

\* One attempt at the current selector, up to the start of the inner loop:
\* the wait times out ("absent"), page.locator/count raises ("error"), or
\* count elements are found.
CollectAttempt ==
  /\ pc = "collect"
  /\ sel <= Len(selector_list)
  /\ \E out \in {"absent", "error", "found"}, c \in Counts :
       /\ lastOutcome' = out
       /\ nAttempts' = nAttempts + 1
       /\ CASE out = "absent" ->
                 /\ NextSelector
                 /\ UNCHANGED << pc, count, n, i >>
            [] out = "error" ->
                 /\ NextAttempt
                 /\ UNCHANGED << pc, count, n, i >>
            [] out = "found" ->
                 /\ count' = c
                 /\ n' = Take(c, max_items, Len(acc))
                 /\ i' = 0
                 /\ pc' = "extract"
                 /\ UNCHANGED << sel, attempt >>
  /\ Touch
  /\ UNCHANGED << ctx, launches, closes, cp, prompts, acks, steps, collectCalls,
                  ending, exitStatus, printed, primaryCount >>
  /\ UNCHANGED << caller, selector_list, max_items, acc >>
  /\ UNCHANGED << listVars, captchaVars >>

\* One iteration of the inner loop.
CollectExtract ==
  /\ pc = "extract"
  /\ i < n
  /\ \E e \in ElemsAt(i + 1) : acc' = ExtractElem(acc, e)
  /\ i' = i + 1
  /\ Touch
  /\ UNCHANGED << ctx, launches, closes, cp, prompts, acks, steps, collectCalls,
                  ending, exitStatus, printed, primaryCount >>
  /\ UNCHANGED << pc, caller, selector_list, max_items, sel, attempt, count, n,
                  lastOutcome, nAttempts >>
  /\ UNCHANGED << listVars, captchaVars >>

\* After the inner loop: return when the list is full, else break.
CollectEndLoop ==
  /\ pc = "extract"
  /\ i >= n
  /\ IF Len(acc) >= max_items
       THEN /\ pc' = "return"
            /\ UNCHANGED << sel, attempt >>
       ELSE /\ pc' = "collect"
            /\ IF AfterEnumerated = "next" THEN NextSelector ELSE NextAttempt
  /\ UNCHANGED << mainVars, listVars, captchaVars >>
  /\ UNCHANGED << caller, selector_list, max_items, count, n, i, acc,
                  lastOutcome, nAttempts >>

\* The selector list is exhausted: the final "return results".
CollectExhausted ==
  /\ pc = "collect"
  /\ sel > Len(selector_list)
  /\ pc' = "return"
  /\ UNCHANGED << mainVars, listVars, captchaVars, collectVars >>

\* The caller receives the list.
CollectReturn ==
  /\ pc = "return"
  /\ CASE caller = "primary" ->
            /\ results' = acc
            /\ primaryCount' = Len(acc)
            /\ pc' = "threshold"
            /\ UNCHANGED news_results
       [] caller = "news" ->
            /\ news_results' = acc
            /\ pc' = "merge"
            /\ UNCHANGED << results, primaryCount >>
       [] OTHER ->
            /\ results' = acc
            /\ pc' = "returned"
            /\ UNCHANGED << news_results, primaryCount >>
  /\ UNCHANGED << ctx, launches, closes, opsAfterClose, cp, prompts, acks, steps,
                  collectCalls, ending, exitStatus, printed >>
  /\ UNCHANGED << unique, dom, collectVars, captchaVars >>

\* collect_search_results on its own: any max_items, any selector list.
CollectInit ==
  /\ pc = "collect"
  /\ MainIdle /\ ListsIdle /\ CaptchaIdle
  /\ caller = "harness"
  /\ \E k \in 0..MaxSel : selector_list = SubSeq(Selectors, 1, k)
  /\ max_items \in 0..MaxN
  /\ sel = 1 /\ attempt = 0 /\ count = 0 /\ n = 0 /\ i = 0 /\ acc = <<>>
  /\ lastOutcome = "none" /\ nAttempts = 0

CollectNext ==
  \/ CollectAttempt
  \/ CollectExtract
  \/ CollectEndLoop
  \/ CollectExhausted
  \/ CollectReturn

SpecCollect == CollectInit /\ [][CollectNext]_vars

\* The call is sequential and every wait in it has a timeout: a step that can
\* be taken is taken.
SpecCollectFair == SpecCollect /\ WF_vars(CollectNext)

\* -------------------------------------------------------------------- main
\* An exception no handler of main catches: the interpreter prints the
\* traceback and exits with status 1.  The context is not closed.
Uncaught ==
  /\ pc' = "done"
  /\ ending' = "exception"
  /\ exitStatus' = "1"

\* "if is_captcha_page(page): prompt_manual_solve()"
\* (A variant that goes on without the prompt.)
GateSkipped == "skip"

Gate == "prompt"

\* sys.exit(1) of prompt_manual_solve.
\* (A variant exiting with status 0.)
InterruptStatusZero == "0"

InterruptStatus == "1"

\* What follows context.close() after a failed search input: return.
\* (A variant without the return: main falls through to the wait.)
AfterFailedInputFallsThrough == "waitnav"

AfterFailedInput == "return"

\* p.chromium.launch_persistent_context(...), outside any try.
Launch ==
  /\ pc = "start"
  /\ launches' = launches + 1
  /\ \E ok \in BOOLEAN :
       IF ok THEN /\ ctx' = "open"
                  /\ pc' = "newpage"
                  /\ UNCHANGED << ending, exitStatus >>
             ELSE /\ Uncaught
                  /\ UNCHANGED ctx
  /\ UNCHANGED << closes, opsAfterClose, cp, prompts, acks, steps, collectCalls,
                  printed, primaryCount >>
  /\ UNCHANGED << listVars, collectVars, captchaVars >>

\* context.new_page() and page.set_extra_http_headers(...), outside any try.
NewPage ==
  /\ pc = "newpage"
  /\ \E ok \in BOOLEAN :
       IF ok THEN /\ pc' = "goto"
                  /\ UNCHANGED << ending, exitStatus >>
             ELSE Uncaught
  /\ Touch
  /\ UNCHANGED << ctx, launches, closes, cp, prompts, acks, steps, collectCalls,
                  printed, primaryCount >>
  /\ UNCHANGED << listVars, collectVars, captchaVars >>

\* page.goto(...); a navigation error is printed and the run continues.
Goto ==
  /\ pc = "goto"
  /\ pc' = "check1"
  /\ Touch
  /\ UNCHANGED << ctx, launches, closes, cp, prompts, acks, steps, collectCalls,
                  ending, exitStatus, printed, primaryCount >>
  /\ UNCHANGED << listVars, collectVars, captchaVars >>

\* The step after a checkpoint that found no challenge, or was acknowledged.
AfterCheckpoint(at) == IF at = "check1" THEN "search" ELSE "collectstart"

\* A challenge checkpoint: is_captcha_page on whatever page is shown, then
\* the call of prompt_manual_solve (its banner is printed and input() blocks).
Checkpoint ==
  /\ pc \in {"check1", "check2"}
  /\ \E pg \in Pages, f \in Faults :
       LET r == is_captcha_page(pg, f) IN
       /\ cp' = Append(cp, [raised |-> (InspectBody(pg, f) = Raise),
                            result |-> r])
       /\ CASE r = Raise ->
                 /\ Uncaught
                 /\ UNCHANGED prompts
            [] r = "true" /\ Gate = "prompt" ->
                 /\ prompts' = prompts + 1
                 /\ pc' = IF pc = "check1" THEN "prompt1" ELSE "prompt2"
                 /\ UNCHANGED << ending, exitStatus >>
            [] OTHER ->
                 /\ pc' = AfterCheckpoint(pc)
                 /\ UNCHANGED << prompts, ending, exitStatus >>
  /\ Touch
  /\ UNCHANGED << ctx, launches, closes, acks, steps, collectCalls, printed,
                  primaryCount >>
  /\ UNCHANGED << listVars, collectVars, captchaVars >>

\* Enter at the prompt, then wait_for_load_state (its errors are passed over).
PromptEnter ==
  /\ pc \in {"prompt1", "prompt2"}
  /\ acks' = acks + 1
  /\ pc' = AfterCheckpoint(IF pc = "prompt1" THEN "check1" ELSE "check2")
  /\ Touch
  /\ UNCHANGED << ctx, launches, closes, cp, prompts, steps, collectCalls,
                  ending, exitStatus, printed, primaryCount >>
  /\ UNCHANGED << listVars, collectVars, captchaVars >>

\* KeyboardInterrupt at the prompt: sys.exit(1).
PromptInterrupt ==
  /\ pc \in {"prompt1", "prompt2"}
  /\ pc' = "done"
  /\ ending' = "sys.exit"
  /\ exitStatus' = InterruptStatus
  /\ UNCHANGED << ctx, launches, closes, opsAfterClose, cp, prompts, acks, steps,
                  collectCalls, printed, primaryCount >>
  /\ UNCHANGED << listVars, collectVars, captchaVars >>

\* End of input at the prompt: input() raises EOFError, which the handler for
\* KeyboardInterrupt does not catch.
PromptEOF ==
  /\ pc \in {"prompt1", "prompt2"}
  /\ Uncaught
  /\ UNCHANGED << ctx, launches, closes, opsAfterClose, cp, prompts, acks, steps,
                  collectCalls, printed, primaryCount >>
  /\ UNCHANGED << listVars, collectVars, captchaVars >>

\* The query is typed and submitted: through the XPath input, or through the
\* generic input after the XPath input was absent or failed.
SubmitQuery ==
  /\ pc = "search"
  /\ steps' = steps \cup {"search"}
  /\ pc' = "waitnav"
  /\ Touch
  /\ UNCHANGED << ctx, launches, closes, cp, prompts, acks, collectCalls, ending,
                  exitStatus, printed, primaryCount >>
  /\ UNCHANGED << listVars, collectVars, captchaVars >>

\* The generic input fails too: context.close() and return (both places).
SubmitFails ==
  /\ pc = "search"
  /\ steps' = steps \cup {"search"}
  /\ Touch
  /\ ctx' = "closed"
  /\ closes' = closes + 1
  /\ IF AfterFailedInput = "return"
       THEN /\ pc' = "done"
            /\ ending' = "return"
            /\ exitStatus' = "0"
       ELSE /\ pc' = "waitnav"
            /\ UNCHANGED << ending, exitStatus >>
  /\ UNCHANGED << launches, cp, prompts, acks, collectCalls, printed,
                  primaryCount >>
  /\ UNCHANGED << listVars, collectVars, captchaVars >>

\* wait_for_load_state after the submission, and the sleep.
WaitNav ==
  /\ pc = "waitnav"
  /\ pc' = "check2"
  /\ Touch
  /\ UNCHANGED << ctx, launches, closes, cp, prompts, acks, steps, collectCalls,
                  ending, exitStatus, printed, primaryCount >>
  /\ UNCHANGED << listVars, collectVars, captchaVars >>

\* results = collect_search_results(page, selectors, max_items=12)
CollectPrimary ==
  /\ pc = "collectstart"
  /\ steps' = steps \cup {"collect"}
  /\ collectCalls' = collectCalls + 1
  /\ BeginCollect("primary", Selectors, MainMaxItems)
  /\ dom' \in ResultPages
  /\ pc' = "collect"
  /\ UNCHANGED << ctx, launches, closes, opsAfterClose, cp, prompts, acks,
                  ending, exitStatus, printed, primaryCount >>
  /\ UNCHANGED << results, news_results, unique, captchaVars >>

\* "if len(results) < 6" is false: straight to the final pass.
SkipNews ==
  /\ pc = "threshold"
  /\ ~NeedsNews(Len(results))
  /\ pc' = "dedupe"
  /\ UNCHANGED << mainVars, listVars, collectVars, captchaVars >>

\* try_click_news_tab: True after a click and the wait; False when no anchor
\* matches or when the locator, the click or the wait raises.  On True the
\* second collection is called.
TryNews ==
  /\ pc = "threshold"
  /\ NeedsNews(Len(results))
  /\ steps' = steps \cup {"news"}
  /\ Touch
  /\ \E clicked \in BOOLEAN :
       IF clicked
         THEN /\ collectCalls' = collectCalls + 1
              /\ BeginCollect("news", news_selectors, MainMaxItems)
              /\ dom' \in NewsPages
              /\ pc' = "collect"
         ELSE /\ pc' = "dedupe"
              /\ UNCHANGED << collectCalls, collectVars, dom >>
  /\ UNCHANGED << ctx, launches, closes, cp, prompts, acks, ending, exitStatus,
                  printed, primaryCount >>
  /\ UNCHANGED << results, news_results, unique, captchaVars >>

\* The merge of news_results into results.
MergeNews ==
  /\ pc = "merge"
  /\ results' = Merge(results, news_results)
  /\ pc' = "dedupe"
  /\ UNCHANGED << news_results, unique, dom >>
  /\ UNCHANGED << mainVars, collectVars, captchaVars >>

\* The final deduplication pass.
FinalDedupe ==
  /\ pc = "dedupe"
  /\ unique' = Dedupe(results)
  /\ pc' = "print"
  /\ UNCHANGED << results, news_results, dom >>
  /\ UNCHANGED << mainVars, collectVars, captchaVars >>

\* The diagnostic block for no results, else the numbered list.
PrintResults ==
  /\ pc = "print"
  /\ printed' = IF unique = <<>> THEN "diagnostic" ELSE "list"
  /\ steps' = steps \cup {"print"}
  /\ pc' = "close"
  /\ UNCHANGED << ctx, launches, closes, opsAfterClose, cp, prompts, acks,
                  collectCalls, ending, exitStatus, primaryCount >>
  /\ UNCHANGED << listVars, collectVars, captchaVars >>

\* context.close() at the end of main, and the return.
CloseContext ==
  /\ pc = "close"
  /\ ctx' = "closed"
  /\ closes' = closes + 1
  /\ pc' = "done"
  /\ ending' = "return"
  /\ exitStatus' = "0"
  /\ UNCHANGED << launches, opsAfterClose, cp, prompts, acks, steps,
                  collectCalls, printed, primaryCount >>
  /\ UNCHANGED << listVars, collectVars, captchaVars >>

Init ==
  /\ pc = "start"
  /\ MainIdle /\ ListsIdle /\ CollectIdle /\ CaptchaIdle

Next ==
  \/ Launch
  \/ NewPage
  \/ Goto
  \/ Checkpoint
  \/ PromptEnter
  \/ PromptInterrupt
  \/ PromptEOF
  \/ SubmitQuery
  \/ SubmitFails
  \/ WaitNav
  \/ CollectPrimary
  \/ CollectAttempt
  \/ CollectExtract
  \/ CollectEndLoop
  \/ CollectExhausted
  \/ CollectReturn
  \/ SkipNews
  \/ TryNews
  \/ MergeNews
  \/ FinalDedupe
  \/ PrintResults
  \/ CloseContext

Spec == Init /\ [][Next]_vars

\* ------------------------------------------- the final pass run on its own
Entries == [title : {"H", "A"}, link : Links \cup {""}]

RECURSIVE SeqsUpTo(_, _)
SeqsUpTo(S, k) ==
  IF k = 0 THEN { << >> }
  ELSE SeqsUpTo(S, k - 1) \cup
       { Append(q, x) : q \in { t \in SeqsUpTo(S, k - 1) : Len(t) = k - 1 }, x \in S }

DedupInit ==
  /\ pc = "dedupe"
  /\ MainIdle /\ CollectIdle /\ CaptchaIdle
  /\ results \in SeqsUpTo(Entries, MaxLen)
  /\ news_results = <<>> /\ unique = <<>> /\ dom = <<>>

SpecDedup == DedupInit /\ [][FinalDedupe]_vars

\* ------------------------------------------- is_captcha_page run on its own
Inspect ==
  /\ pc = "inspect"
  /\ captcha' = is_captcha_page(page, fault)
  /\ pc' = "inspected"
  /\ UNCHANGED << page, fault, mainVars, listVars, collectVars >>

CaptchaInit ==
  /\ pc = "inspect"
  /\ MainIdle /\ ListsIdle /\ CollectIdle
  /\ page \in Pages
  /\ fault \in Faults
  /\ captcha = "none"

SpecCaptcha == CaptchaInit /\ [][Inspect]_vars

\* ================================================================== claims
\* The positions of the first occurrences of the non-empty links of a list.
FirstIdx(list) ==
  { k \in 1..Len(list) :
      /\ list[k].link # ""
      /\ \A j \in 1..(k - 1) : list[j].link # list[k].link }

\* The number of checkpoints at which is_captcha_page returned true.
Trues == Cardinality({ k \in 1..Len(cp) : cp[k].result = "true" })

\* C1: after the final deduplication pass, unique holds exactly one entry per
\* distinct non-empty link of results, its a-th entry is the entry of the a-th
\* first occurrence (so first occurrences are kept, in their order), it is
\* never longer than results, and no two of its entries share a link.
C1_DedupeFirstOccurrences ==
  pc = "print" =>
    /\ Len(unique) <= Len(results)
    /\ Len(unique) = Cardinality(LinksOf(results) \ {""})
    /\ \A a, b \in 1..Len(unique) : a # b => unique[a].link # unique[b].link
    /\ \A a \in 1..Len(unique) :
         \E k \in FirstIdx(results) :
           /\ unique[a] = results[k]
           /\ Cardinality({ j \in FirstIdx(results) : j < k }) = a - 1

C1_Witness ==
  /\ pc = "print"
  /\ Len(results) = 3
  /\ results[1].link = "x" /\ results[2].link = "y" /\ results[3].link = "x"
  /\ results[1].title # results[3].title
  /\ unique = << results[1], results[2] >>

\* C2: the list collect_search_results accumulates never holds more than
\* max_items entries, and neither does the list it returns.
C2_CapacityBound ==
  /\ Len(acc) <= max_items
  /\ pc = "returned" => Len(results) <= max_items

C2_Witness ==
  /\ pc = "returned"
  /\ count > max_items
  /\ max_items > 0
  /\ Len(results) = max_items

\* The inspection raises: a step that is reached fails.
FaultReached ==
  \/ fault = "url"
  \/ fault = "notRobot" /\ ~page.marker
  \/ fault = "unusual" /\ ~page.marker /\ page.notRobot = 0

Challenge == page.marker \/ page.notRobot > 0 \/ page.unusual > 0

\* C3 as stated: is_captcha_page returns true when the URL holds the marker
\* or a challenge phrase is on the page, and false when the page has neither.
C3_AsStated ==
  pc = "inspected" => (captcha = "true" <=> Challenge)

\* C3 as amended: when no inspection step raises, is_captcha_page returns true
\* exactly when the URL holds the marker or a challenge phrase is on the page;
\* for a page that has neither it returns false in every case.
C3_DetectsUnlessRaised ==
  pc = "inspected" =>
    /\ ~FaultReached => (captcha = "true" <=> Challenge)
    /\ ~Challenge => captcha = "false"

C3_Witness ==
  /\ pc = "inspected"
  /\ fault = "none"
  /\ ~page.marker /\ page.notRobot = 0 /\ page.unusual > 0
  /\ captcha = "true"

\* C4: a checkpoint whose inspection raised reads as "not a challenge": the
\* result is false, no exception leaves is_captcha_page, the prompt is not
\* invoked for it and the run goes on past the checkpoint.
C4_InspectionErrorFailsOpen ==
  /\ \A k \in 1..Len(cp) : cp[k].raised => cp[k].result = "false"
  /\ prompts <= Trues
  /\ (Len(cp) > 0 /\ cp[Len(cp)].raised) =>
       /\ pc \notin {"prompt1", "prompt2"}
       /\ ending # "exception"

C4_Witness ==
  /\ Len(cp) = 2
  /\ cp[1].raised /\ cp[2].raised
  /\ prompts = 0
  /\ pc = "done" /\ ending = "return" /\ "print" \in steps

\* C5: the prompt is invoked exactly at the checkpoints where is_captcha_page
\* returned true (never when it returned false at both), and while such a
\* prompt has not received Enter none of the later automated steps has run:
\* no query typed after the first checkpoint, nothing collected, no News tab
\* clicked and nothing printed after the second.  Nothing but Enter lets the
\* run go on, however long the wait.
C5_GateBlocksUntilEnter ==
  /\ prompts = Trues
  /\ acks <= prompts
  /\ acks < Trues =>
       /\ cp[Len(cp)].result = "true"
       /\ steps \subseteq (IF Len(cp) = 1 THEN {} ELSE {"search"})
       /\ collectCalls = 0
       /\ printed = "none"
  /\ pc \in {"prompt1", "prompt2"} => acks < Trues

C5_Witness ==
  /\ pc = "prompt2"
  /\ cp[1].result = "true" /\ cp[2].result = "true"
  /\ acks = 1
  /\ steps = {"search"}

\* C6 as stated: the run ends with exit status 1 exactly when the user
\* interrupts at the manual-solve prompt.
C6_AsStated ==
  pc = "done" => (exitStatus = "1" <=> ending = "sys.exit")

\* C6 as amended: an interrupt at the prompt ends the run with exit status 1
\* and nothing runs after it; a run that returns from main ends with status 0
\* whatever the number of results, printing only the diagnostic block when
\* there is none; the one other way to status 1 is an exception no handler
\* catches (the launch or the page set-up failing, end of input at the prompt).
C6_ExitStatus ==
  pc = "done" =>
    /\ ending \in {"sys.exit", "return", "exception"}
    /\ ending = "sys.exit" =>
         /\ exitStatus = "1"
         /\ acks < prompts
         /\ steps \subseteq {"search"}
    /\ ending = "return" =>
         /\ exitStatus = "0"
         /\ "print" \in steps => (printed = "diagnostic" <=> Len(unique) = 0)
    /\ exitStatus = "1" <=> ending \in {"sys.exit", "exception"}
    /\ ~ENABLED Next

C6_Witness ==
  /\ pc = "done"
  /\ ending = "sys.exit"
  /\ exitStatus = "1"
  /\ Len(cp) = 2

\* C7: the News tab is tried, and the collector called a second time, only
\* when the primary collection returned fewer than 6 results.
C7_NewsOnlyBelowThreshold ==
  ("news" \in steps \/ collectCalls > 1) => primaryCount < 6

C7_Witness ==
  /\ pc = "done"
  /\ ending = "return"
  /\ primaryCount = 6
  /\ "news" \notin steps
  /\ collectCalls = 1

\* C8 as stated: an entry appended by the merge carries a link that was not
\* in results at the moment it was appended.
C8_AsStated ==
  \A k \in (primaryCount + 1)..Len(results) :
    \A j \in 1..(k - 1) : results[j].link # results[k].link

\* C9: a selector is attempted at most MAX_RETRIES times; it is attempted
\* again only after an attempt at it raised; after a timed-out wait or an
\* enumeration the next selector follows; the list is walked once, forwards;
\* the call makes at most len(selector_list) * MAX_RETRIES attempts and
\* returns.
C9_BoundedRetries ==
  /\ [](sel <= Len(selector_list) => attempt < MAX_RETRIES)
  /\ []((pc = "collect" /\ attempt > 0) => lastOutcome = "error")
  /\ [](nAttempts <= Len(selector_list) * MAX_RETRIES)
  /\ [][ /\ sel' >= sel
         /\ sel' = sel => (attempt' >= attempt /\ attempt' <= attempt + 1)
         /\ (nAttempts' # nAttempts /\ lastOutcome' = "absent") => sel' = sel + 1
         /\ (pc = "extract" /\ pc' = "collect") => sel' = sel + 1 ]_vars
  /\ <>(pc = "returned")

C9_Witness ==
  /\ pc = "returned"
  /\ Len(selector_list) = 2
  /\ nAttempts = 2 * MAX_RETRIES
  /\ lastOutcome = "error"

\* C10: the context is launched once, and a run that returns from main, at
\* its end or after a failed search input, has closed it exactly once; no
\* page operation runs on a closed context.
C10_ContextClosedOnce ==
  /\ launches <= 1
  /\ closes <= 1
  /\ ~opsAfterClose
  /\ ctx = "closed" => pc = "done"
  /\ (pc = "done" /\ ending = "return") =>
       /\ launches = 1
       /\ closes = 1
       /\ ctx = "closed"

C10_Witness ==
  /\ pc = "done"
  /\ ending = "return"
  /\ "print" \notin steps
  /\ closes = 1

====
